---- MODULE Spec2Model ----
(***************************************************************************)
(* A model of backend/main.py of the AI Data Agent: the schema inferencer  *)
(* (clean_column_name, detect_data_type, the cleaning loop of              *)
(* process_excel_file), the ingestion store (store_in_database) and the    *)
(* request handlers upload_file, process_query and get_table_info.         *)
(*                                                                         *)
(* Text is modelled as a sequence of one-character strings, so that the    *)
(* character-level rewriting of names is computed, not assumed.            *)
(***************************************************************************)
EXTENDS Integers, Sequences, FiniteSets, TLC

VARIABLES
    col_name,       \* harness: the raw label handed to clean_column_name
    clean_name,     \* harness: << >> before the call, <<result>> after it
    series,         \* harness: the column handed to detect_data_type
    dtype,          \* harness: << >> before the call, <<outcome>> after it
    db,             \* the durable store: relation name -> [columns, rows]
    upPc,           \* upload request: "idle", "reading", "storing", "done"
    file,           \* upload request: the workbook [filename, sheets]
    processed_sheets, \* upload request: the cleaned sheets, in sheet order
    table_id,       \* upload request: the generated upload id
    sheetIdx,       \* store_in_database: position of the loop over the sheets
    phase,          \* store_in_database: "data" or "meta" write of that sheet
    upResp,         \* upload request: the response, << >> while there is none
    dbBefore,       \* history: the store when the upload request arrived
    ingested,       \* history: <<upload id, sheet name>> of the persist calls that returned
    uploads,        \* history: number of upload requests so far
    qPc,            \* query request: "idle", "awaiting", "done"
    qKind,          \* "query" (POST /query) or "info" (GET /tables/{id}/info)
    request_data,   \* query request: [table_id, question], each << >> or <<text>>
    table_info,     \* query request: the dict built from the metadata rows
    ai_reply,       \* query request: what the translator call produced
    qResp,          \* query request: the response, << >> while there is none
    qTrace,         \* history: store reads and translator calls of the request
    executedSql,    \* history: << >> or <<the statement given to pd.read_sql>>
    usedViz         \* history: << >> or <<the chart type given to the renderer>>

pureVars   == <<col_name, clean_name, series, dtype>>
uploadVars == <<db, upPc, file, processed_sheets, table_id, sheetIdx, phase,
                upResp, dbBefore, ingested, uploads>>
queryVars  == <<qPc, qKind, request_data, table_info, ai_reply, qResp, qTrace,
                executedSql, usedViz>>

-----------------------------------------------------------------------------
(* Characters.  Python's \w is Unicode-aware for str patterns: it matches   *)
(* ASCII letters, digits, the underscore and non-ASCII letters as well.     *)

AsciiLetters == {"a", "b", "x", "y", "U", "n", "m", "e", "d", "C", "o", "l", "u", "f"}
Digits       == {"0", "1", "3"}
AsciiWord    == AsciiLetters \cup Digits \cup {"_"}
\* "U+00E9" stands for the one character e-acute
UnicodeWord  == {"U+00E9"}
Whitespace   == {" "}

IsWordChar(c)  == c \in AsciiWord \cup UnicodeWord   \* regex \w
IsSpaceChar(c) == c \in Whitespace                  \* regex \s

\* s[:n]
Take(s, n) == IF Len(s) <= n THEN s ELSE SubSeq(s, 1, n)

\* s.startswith(p)
StartsWith(s, p) == Len(s) >= Len(p) /\ SubSeq(s, 1, Len(p)) = p

\* str.strip(): what lies between the first and the last non-space character
Strip(s) ==
    LET solid == { i \in 1..Len(s) : ~IsSpaceChar(s[i]) } IN
    IF solid = {} THEN << >>
    ELSE SubSeq(s, CHOOSE i \in solid : \A j \in solid : i <= j,
                   CHOOSE i \in solid : \A j \in solid : i >= j)

\* re.sub(r'[^\w\s]', '', s)
RemovePunct(s) == SelectSeq(s, LAMBDA c : IsWordChar(c) \/ IsSpaceChar(c))

\* re.sub(r'\s+', '_', s): every maximal run of whitespace becomes one "_"
\* (kept: the non-space characters and the first character of every run)
CollapseSpace(s) ==
    LET kept == SelectSeq([i \in 1..Len(s) |-> i],
                    LAMBDA i : \/ ~IsSpaceChar(s[i])
                               \/ i = 1
                               \/ ~IsSpaceChar(s[i - 1]))
    IN  [k \in 1..Len(kept) |->
            IF IsSpaceChar(s[kept[k]]) THEN "_" ELSE s[kept[k]]]

-----------------------------------------------------------------------------
(* DataProcessor.clean_column_name                                         *)

NameLimit == 50

NaN == [kind |-> "nan", s |-> << >>]     \* a missing header cell
Str(s) == [kind |-> "str", s |-> s]      \* a textual header cell

UnnamedPrefix == <<"U", "n", "n", "a", "m", "e", "d">>
ColumnPrefix  == <<"C", "o", "l", "u", "m", "n", "_">>

\* uuid.uuid4().hex[:6]: some six hexadecimal digits
HexNames == { <<"0", "0", "0", "0", "0", "0">>, <<"f", "1", "0", "3", "f", "f">> }

\* hex is the value uuid4 draws when the placeholder branch is taken
clean_column_name(label, hex) ==
    IF label.kind = "nan" \/ label.s = << >> \/ StartsWith(label.s, UnnamedPrefix)
    THEN ColumnPrefix \o hex
    ELSE Take(CollapseSpace(RemovePunct(Strip(label.s))), NameLimit)

-----------------------------------------------------------------------------
(* DataProcessor.detect_data_type.  A cell is abstracted by how the three  *)
(* parsers of the function treat it:                                       *)
(*   "int"        7 or "7"        a number with zero fractional part       *)
(*   "year"       2024 or "2024"  such a number that also parses as a date *)
(*   "frac"       1.5 or "1.5"    a number with a fractional part          *)
(*   "date"       "2024-01-05"    a date text, not a number                *)
(*   "timestamp"  a native datetime64 cell                                 *)
(*   "text"       "x"             neither                                  *)
(*   "sentinel"   "", "nan", "None", "null" (after strip)                  *)
(*   NULL         NaN / NaT                                                *)

NULL == "null"
Cells == {"int", "year", "frac", "date", "timestamp", "text", "sentinel"}

IsNumber(v)   == v \in {"int", "year", "frac"}
IsDateLike(v) == v \in {"year", "date", "timestamp"}

\* series.dropna()
DropNa(s) == SelectSeq(s, LAMBDA v : v # NULL)

\* pd.to_numeric(series) returns (rather than raises): every value is a
\* number, or the series has dtype datetime64 (it is then viewed as int64)
ToNumericOK(s) ==
    \/ \A i \in 1..Len(s) : IsNumber(s[i])
    \/ \A i \in 1..Len(s) : s[i] = "timestamp"

\* float(x): raises TypeError on a Timestamp, ValueError on other text
FloatOK(v) == IsNumber(v)

\* float(x).is_integer()
IsInteger(v) == v \in {"int", "year"}

\* all(float(x).is_integer() for x in s): "true", "false" or "raise";
\* all() stops at the first false, before float() sees the later values
RECURSIVE AllInteger(_)
AllInteger(s) ==
    IF s = << >> THEN "true"
    ELSE IF ~FloatOK(Head(s)) THEN "raise"
    ELSE IF ~IsInteger(Head(s)) THEN "false"
    ELSE AllInteger(Tail(s))

\* pd.to_datetime(series) returns (rather than raises)
ToDatetimeOK(s) == \A i \in 1..Len(s) : IsDateLike(s[i])

\* lines 64-70: the numeric attempt; "pass" when the bare except swallowed
NumericAttempt(s) ==
    IF ~ToNumericOK(s) THEN "pass"
    ELSE CASE AllInteger(s) = "true"  -> "INTEGER"
           [] AllInteger(s) = "false" -> "REAL"
           [] OTHER                   -> "pass"

\* lines 73-77: the datetime attempt
DatetimeAttempt(s) == IF ToDatetimeOK(s) THEN "DATETIME" ELSE "pass"

\* detect_data_type as it would be with the datetime attempt made first
DetectDatesFirst(s) ==
    LET nn == DropNa(s) IN
    IF Len(nn) = 0 THEN "TEXT"
    ELSE IF DatetimeAttempt(nn) # "pass" THEN DatetimeAttempt(nn)
    ELSE IF NumericAttempt(nn) # "pass" THEN NumericAttempt(nn)
    ELSE "TEXT"

detect_data_type(s) ==
    LET nn == DropNa(s) IN
    IF Len(nn) = 0 THEN "TEXT"
    ELSE IF NumericAttempt(nn) # "pass" THEN NumericAttempt(nn)
    ELSE IF DatetimeAttempt(nn) # "pass" THEN DatetimeAttempt(nn)
    ELSE "TEXT"

-----------------------------------------------------------------------------
(* Bounded inputs of the two pure functions                                *)

MaxLabelLen == 3
MaxColLen   == 3

LabelChars == {"a", "_", " ", "!", "U+00E9"}

RECURSIVE SeqsUpTo(_, _)
SeqsUpTo(S, n) ==
    IF n = 0 THEN { << >> }
    ELSE LET shorter == SeqsUpTo(S, n - 1)
         IN  shorter \cup { Append(s, c) : s \in shorter, c \in S }

\* s repeated n times
Rep(s, n) == [i \in 1..(n * Len(s)) |-> s[((i - 1) % Len(s)) + 1]]

\* short labels over every character class, the read_excel placeholder, and
\* labels longer than NameLimit
Labels ==
    {NaN}
    \cup { Str(s) : s \in SeqsUpTo(LabelChars, MaxLabelLen) }
    \cup { Str(UnnamedPrefix \o <<":", " ", "3">>),
           Str(Rep(<<"a">>, NameLimit + 1)),
           Str(Rep(<<"a", " ", "!">>, NameLimit)),
           Str(<<" ">> \o Rep(<<"b", "-">>, NameLimit)) }

Columns == SeqsUpTo((Cells \ {"sentinel"}) \cup {NULL}, MaxColLen)

-----------------------------------------------------------------------------
(* Harness of the pure functions                                           *)

CleanColumnName ==
    /\ clean_name = << >>
    /\ \E hex \in HexNames : clean_name' = <<clean_column_name(col_name, hex)>>
    /\ UNCHANGED <<col_name, series, dtype>>
    /\ UNCHANGED uploadVars
    /\ UNCHANGED queryVars

NextLabel ==
    /\ clean_name # << >>
    /\ col_name' \in Labels
    /\ clean_name' = << >>
    /\ UNCHANGED <<series, dtype>>
    /\ UNCHANGED uploadVars
    /\ UNCHANGED queryVars

DetectDataType ==
    /\ dtype = << >>
    /\ dtype' = <<detect_data_type(series)>>
    /\ UNCHANGED <<col_name, clean_name, series>>
    /\ UNCHANGED uploadVars
    /\ UNCHANGED queryVars

NextSeries ==
    /\ dtype # << >>
    /\ series' \in Columns
    /\ dtype' = << >>
    /\ UNCHANGED <<col_name, clean_name>>
    /\ UNCHANGED uploadVars
    /\ UNCHANGED queryVars

-----------------------------------------------------------------------------
(* The cleaning loop of DataProcessor.process_excel_file (lines 89-112)    *)

\* column j of a row list
Column(rows, j) == [i \in 1..Len(rows) |-> rows[i][j]]

\* df.dropna(how='all')
DropEmptyRows(rows) ==
    SelectSeq(rows, LAMBDA r : \E j \in 1..Len(r) : r[j] # NULL)

\* df[col].dtype == 'object': the column holds at least one text cell
IsObject(col) == \E i \in 1..Len(col) : col[i] \in {"text", "date", "sentinel"}

\* .astype(str).str.strip() then .replace(['', 'nan', 'None', 'null'], np.nan):
\* NaN becomes the text 'nan' and is made null again with the sentinels; a
\* Timestamp becomes its date text; numbers become numeric text
CleanCell(v) ==
    IF v \in {"sentinel", NULL} THEN NULL
    ELSE IF v = "timestamp" THEN "date"
    ELSE v

\* one iteration of the loop over excel_file.sheet_names; hx[j] is the uuid
\* drawn for column j
ProcessSheet(sheet, hx) ==
    LET cols == [j \in 1..Len(sheet.columns) |->
                    clean_column_name(sheet.columns[j], hx[j])]
        kept == DropEmptyRows(sheet.rows)
        data == [i \in 1..Len(kept) |->
                   [j \in 1..Len(cols) |->
                      IF IsObject(Column(kept, j)) THEN CleanCell(kept[i][j])
                      ELSE kept[i][j]]]
    IN  [sheet_name |-> sheet.sheet_name,
         data       |-> data,
         shape      |-> <<Len(data), Len(cols)>>,
         columns    |-> cols,
         dtypes     |-> [j \in 1..Len(cols) |-> detect_data_type(Column(data, j))]]

-----------------------------------------------------------------------------
(* Names of relations (store_in_database, lines 139 and 145)               *)

TablePrefix    == <<"t", "a", "b", "l", "e", "_">>
MetadataSuffix == <<"_", "m", "e", "t", "a", "d", "a", "t", "a">>

\* uuid.uuid4().hex[:8], shortened to one hexadecimal digit
HexIds == { <<"0">>, <<"f">> }

\* f"table_{uuid.uuid4().hex[:8]}"
TableIds == { TablePrefix \o h : h \in HexIds }

\* .replace(' ', '_').replace('-', '_')
Normalize(s) == [i \in 1..Len(s) |-> IF s[i] \in {" ", "-"} THEN "_" ELSE s[i]]

\* f"{table_id}_{sheet_name}".replace(' ', '_').replace('-', '_')
TableName(id, sheet_name) == Normalize(id \o <<"_">> \o sheet_name)

\* f"{table_id}_metadata"
MetadataTable(id) == id \o MetadataSuffix

\* the keys of the metadata record, lines 147-154
MetaColumns ==
    << <<"t", "a", "b", "l", "e", "_", "n", "a", "m", "e">>,
       <<"s", "h", "e", "e", "t", "_", "n", "a", "m", "e">>,
       <<"f", "i", "l", "e", "n", "a", "m", "e">>,
       <<"c", "o", "l", "u", "m", "n", "s">>,
       <<"d", "t", "y", "p", "e", "s">>,
       <<"r", "o", "w", "_", "c", "o", "u", "n", "t">>,
       <<"c", "o", "l", "_", "c", "o", "u", "n", "t">>,
       <<"c", "r", "e", "a", "t", "e", "d", "_", "a", "t">> >>

\* json.dumps(x); json_loads below is its inverse on these values
json_dumps(x) == [json |-> x]
json_loads(t) == t.json

\* the one-row metadata_df of a sheet; datetime.now() is abstracted to "now"
MetadataRow(id, filename, sheet) ==
    << TableName(id, sheet.sheet_name),
       sheet.sheet_name,
       filename,
       json_dumps(sheet.columns),
       json_dumps(sheet.dtypes),
       sheet.shape[1],
       sheet.shape[2],
       "now" >>

-----------------------------------------------------------------------------
(* The durable store: a function from the names of the existing relations  *)
(* to [columns, rows]                                                      *)

EmptyDb == << >>

Exists(d, name) == name \in DOMAIN d

Put(d, name, rel) ==
    [n \in DOMAIN d \cup {name} |-> IF n = name THEN rel ELSE d[n]]

\* df.to_sql(name, engine, if_exists='replace', index=False)
ToSqlReplace(d, name, columns, rows) ==
    Put(d, name, [columns |-> columns, rows |-> rows])

\* df.to_sql(name, engine, if_exists='append', index=False) can insert: the
\* relation is absent (it is created from the frame) or has the frame's columns
CanAppend(d, name, columns) ==
    ~Exists(d, name) \/ d[name].columns = columns

ToSqlAppend(d, name, columns, rows) ==
    IF Exists(d, name)
    THEN Put(d, name, [columns |-> d[name].columns, rows |-> d[name].rows \o rows])
    ELSE Put(d, name, [columns |-> columns, rows |-> rows])

-----------------------------------------------------------------------------
(* Bounded inputs of the upload request                                    *)

MaxSheets  == 2     \* sheets of one workbook
MaxUploads == 2     \* upload requests of one run

\* s.endswith(p)
EndsWith(s, p) ==
    Len(s) >= Len(p) /\ SubSeq(s, Len(s) - Len(p) + 1, Len(s)) = p

Xlsx == <<".", "x", "l", "s", "x">>
Xls  == <<".", "x", "l", "s">>

Filenames == { <<"b">> \o Xlsx, <<"b", ".", "c", "s", "v">> }

SpaceName    == <<"a", " ", "b">>
HyphenName   == <<"a", "-", "b">>
MetadataName == <<"m", "e", "t", "a", "d", "a", "t", "a">>

RawSheet(name, columns, rows) ==
    [sheet_name |-> name, columns |-> columns, rows |-> rows]

\* two contents for one sheet name, another sheet whose name differs from it
\* in the separator only, and a sheet named like the metadata suffix
RawSheets ==
    { RawSheet(SpaceName,    << Str(<<"x", " ", "y">>) >>, << <<"int">> >>),
      RawSheet(SpaceName,    << Str(<<"x", "!">>) >>,
                             << <<NULL>>, <<"sentinel">>, <<"text">> >>),
      RawSheet(HyphenName,   << Str(<<"x", "!">>) >>,
                             << <<NULL>>, <<"sentinel">>, <<"text">> >>),
      RawSheet(MetadataName, << Str(<<"x", " ", "y">>) >>, << <<"int">> >>) }

\* a workbook has at least one sheet and no two sheets of the same name
SheetLists ==
    { w \in SeqsUpTo(RawSheets, MaxSheets) :
        /\ w # << >>
        /\ \A i, j \in 1..Len(w) : i # j => w[i].sheet_name # w[j].sheet_name }

NoFile == [filename |-> << >>, sheets |-> << >>]

-----------------------------------------------------------------------------
(* Exceptions and responses: [status, detail, cause]; cause names the      *)
(* failure the exception chain started from                                *)

HTTPException(status, detail, cause) ==
    [status |-> status, detail |-> detail, cause |-> cause]

\* line 160: except Exception -> HTTPException(500, "Error storing data: ...")
StoreExcept(cause) == HTTPException(500, "Error storing data", cause)

\* line 132: except Exception -> HTTPException(400, "Error processing ...")
ProcessExcelExcept(e) ==
    HTTPException(400, "Error processing Excel file", e.cause)

\* line 262: except Exception -> HTTPException(500, str(e))
UploadExcept(e) == HTTPException(500, e.detail, e.cause)

\* what the caller of /upload receives when store_in_database raises
StoreFailure == UploadExcept(ProcessExcelExcept(StoreExcept("storage")))

\* what the caller of /upload receives when reading the workbook raises
ReadFailure ==
    UploadExcept(ProcessExcelExcept(HTTPException(0, "read error", "read")))

Summary == HTTPException(200, "summary", "none")

-----------------------------------------------------------------------------
(* POST /upload: upload_file -> process_excel_file -> store_in_database.   *)
(* The handler runs without awaiting once the file is read, so its steps   *)
(* are not interleaved with those of another request.                      *)

Fail(resp) ==
    /\ upPc' = "done"
    /\ upResp' = <<resp>>
    /\ UNCHANGED <<db, file, processed_sheets, table_id, sheetIdx, phase,
                   dbBefore, ingested, uploads>>

\* lines 253-257 and 85: the extension check, then pd.ExcelFile(...); it starts
\* while no other handler is running (a query may be awaiting its translator)
UploadFile ==
    /\ upPc = "idle"
    /\ qPc # "done"
    /\ uploads < MaxUploads
    /\ \E fn \in Filenames, w \in SheetLists, opens \in BOOLEAN :
         /\ file' = [filename |-> fn, sheets |-> w]
         /\ IF ~(EndsWith(fn, Xlsx) \/ EndsWith(fn, Xls))
            THEN /\ upPc' = "done"
                 /\ upResp' = <<HTTPException(400, "Please upload an Excel file",
                                              "extension")>>
            ELSE IF ~opens
            THEN /\ upPc' = "done"
                 /\ upResp' = <<ReadFailure>>
            ELSE /\ upPc' = "reading"
                 /\ upResp' = << >>
    /\ dbBefore' = db
    /\ uploads' = uploads + 1
    /\ UNCHANGED <<db, processed_sheets, table_id, sheetIdx, phase, ingested>>
    /\ UNCHANGED pureVars
    /\ UNCHANGED queryVars

\* ReadSheet as it would be if each sheet were stored as soon as it is cleaned
ReadSheetStoring ==
    /\ upPc = "reading"
    /\ Len(processed_sheets) < Len(file.sheets)
    /\ LET sheet == file.sheets[Len(processed_sheets) + 1] IN
       \E ok \in BOOLEAN, hx \in [1..Len(sheet.columns) -> HexNames], id \in TableIds :
         IF ok
         THEN /\ processed_sheets' =
                    Append(processed_sheets, ProcessSheet(sheet, hx))
              /\ db' = ToSqlReplace(db, TableName(id, sheet.sheet_name),
                                    ProcessSheet(sheet, hx).columns,
                                    ProcessSheet(sheet, hx).data)
              /\ UNCHANGED <<upPc, file, table_id, sheetIdx, phase,
                             upResp, dbBefore, ingested, uploads>>
         ELSE Fail(ReadFailure)
    /\ UNCHANGED pureVars
    /\ UNCHANGED queryVars

\* lines 89-112: read and clean the next sheet
ReadSheet ==
    /\ upPc = "reading"
    /\ Len(processed_sheets) < Len(file.sheets)
    /\ LET sheet == file.sheets[Len(processed_sheets) + 1] IN
       \E ok \in BOOLEAN, hx \in [1..Len(sheet.columns) -> HexNames] :
         IF ok
         THEN /\ processed_sheets' =
                    Append(processed_sheets, ProcessSheet(sheet, hx))
              /\ UNCHANGED <<db, upPc, file, table_id, sheetIdx, phase,
                             upResp, dbBefore, ingested, uploads>>
         ELSE Fail(ReadFailure)
    /\ UNCHANGED pureVars
    /\ UNCHANGED queryVars

\* lines 115-118 and 137: the upload id is drawn, store_in_database is entered
GenerateTableId ==
    /\ upPc = "reading"
    /\ Len(processed_sheets) = Len(file.sheets)
    /\ table_id' \in TableIds
    /\ upPc' = "storing"
    /\ sheetIdx' = 1
    /\ phase' = "data"
    /\ UNCHANGED <<db, file, processed_sheets, upResp, dbBefore, ingested,
                   uploads>>
    /\ UNCHANGED pureVars
    /\ UNCHANGED queryVars

\* lines 138-142: the data relation of the current sheet is replaced; a write
\* the store refuses raises and leaves the store as it was
WriteData ==
    /\ upPc = "storing"
    /\ phase = "data"
    /\ LET sheet == processed_sheets[sheetIdx] IN
       \E ok \in BOOLEAN :
         IF ok
         THEN /\ db' = ToSqlReplace(db, TableName(table_id, sheet.sheet_name),
                                    sheet.columns, sheet.data)
              /\ phase' = "meta"
              /\ UNCHANGED <<upPc, file, processed_sheets, table_id, sheetIdx,
                             upResp, dbBefore, ingested, uploads>>
         ELSE Fail(StoreFailure)
    /\ UNCHANGED pureVars
    /\ UNCHANGED queryVars

\* lines 145-157: the metadata row of the current sheet is appended; then the
\* loop goes on, or the call returns and the summary is sent (lines 120-129)
WriteMetadata ==
    /\ upPc = "storing"
    /\ phase = "meta"
    /\ LET sheet == processed_sheets[sheetIdx]
           mt    == MetadataTable(table_id)
       IN
       \E ok \in BOOLEAN :
         IF ok /\ CanAppend(db, mt, MetaColumns)
         THEN /\ db' = ToSqlAppend(db, mt, MetaColumns,
                           <<MetadataRow(table_id, file.filename, sheet)>>)
              /\ IF sheetIdx < Len(processed_sheets)
                 THEN /\ sheetIdx' = sheetIdx + 1
                      /\ phase' = "data"
                      /\ UNCHANGED <<upPc, upResp, ingested>>
                 ELSE /\ upPc' = "done"
                      /\ upResp' = <<Summary>>
                      /\ UNCHANGED <<sheetIdx, phase, ingested>>
              /\ UNCHANGED <<file, processed_sheets, table_id, dbBefore, uploads>>
         ELSE Fail(StoreFailure)
    /\ UNCHANGED pureVars
    /\ UNCHANGED queryVars

\* the response is sent; the request's locals are gone
UploadReturn ==
    /\ upPc = "done"
    /\ upPc' = "idle"
    /\ file' = NoFile
    /\ processed_sheets' = << >>
    /\ table_id' = << >>
    /\ sheetIdx' = 0
    /\ phase' = "none"
    /\ upResp' = << >>
    /\ dbBefore' = db
    /\ ingested' =
          IF upResp = <<Summary>>
          THEN ingested \cup { <<table_id, processed_sheets[i].sheet_name>> :
                                  i \in 1..Len(processed_sheets) }
          ELSE ingested
    /\ UNCHANGED <<db, uploads>>
    /\ UNCHANGED pureVars
    /\ UNCHANGED queryVars

-----------------------------------------------------------------------------
(* AIAgent.generate_fallback_query and the table_info dict                 *)

\* str.lower() on the letters the questions use
Lower(s) ==
    [i \in 1..Len(s) |->
        CASE s[i] = "T" -> "t" [] s[i] = "S" -> "s" [] OTHER -> s[i]]

\* w in s, for texts
Contains(s, w) ==
    \E i \in 0..(Len(s) - Len(w)) : SubSeq(s, i + 1, i + Len(w)) = w

LineWords == { <<"t", "r", "e", "n", "d">>, <<"t", "i", "m", "e">>, <<"o", "v", "e", "r", " ", "t", "i", "m", "e">> }
BarWords  == { <<"s", "u", "m">>, <<"t", "o", "t", "a", "l">>, <<"c", "o", "u", "n", "t">> }

\* "SELECT * FROM <table> LIMIT <n>"; limit 0 stands for no LIMIT clause
Select(table, limit) == [from |-> table, limit |-> limit]

FallbackLimit == 100

ResponseKeys == {"sql_query", "visualization_type", "explanation", "insights"}

\* lines 279-284: table_info[row['table_name']] = {...}; a key met again keeps
\* its place and takes the new value
RECURSIVE BuildTableInfo(_, _)
BuildTableInfo(rows, acc) ==
    IF rows = << >> THEN acc
    ELSE LET r     == Head(rows)
             entry == [table_name |-> r[1],
                       columns    |-> json_loads(r[4]),
                       dtypes     |-> json_loads(r[5]),
                       row_count  |-> r[6]]
             at    == { i \in 1..Len(acc) : acc[i].table_name = r[1] }
         IN  BuildTableInfo(Tail(rows),
                 IF at = {} THEN Append(acc, entry)
                 ELSE [i \in 1..Len(acc) |-> IF i \in at THEN entry ELSE acc[i]])

generate_fallback_query(question, info) ==
    LET question_lower == Lower(question)
        first_table    == info[1].table_name
    IN  IF \E w \in LineWords : Contains(question_lower, w)
        THEN [keys |-> ResponseKeys,
              sql_query |-> Select(first_table, FallbackLimit),
              visualization_type |-> "line"]
        ELSE IF \E w \in BarWords : Contains(question_lower, w)
        THEN [keys |-> ResponseKeys,
              sql_query |-> Select(first_table, FallbackLimit),
              visualization_type |-> "bar"]
        ELSE [keys |-> ResponseKeys,
              sql_query |-> Select(first_table, FallbackLimit),
              visualization_type |-> "table"]

\* AIAgent.process_query: the translator call raised ("raise"), its content is
\* not JSON ("notjson": json.loads raises), or it is JSON ("json") and is
\* returned as parsed, whatever keys it has.  The except branch calls
\* generate_fallback_query, whose list(table_info.keys())[0] raises IndexError
\* on an empty dict.
AgentProcessQuery(reply, question, info) ==
    IF reply.kind = "json"
    THEN [tag |-> "return",
          value |-> [keys |-> reply.keys, sql_query |-> reply.sql_query,
                     visualization_type |-> reply.visualization_type]]
    ELSE IF info = << >>
    THEN [tag |-> "raise"]
    ELSE [tag |-> "return", value |-> generate_fallback_query(question, info)]

-----------------------------------------------------------------------------
(* Bounded inputs of the query requests                                    *)

Missing == << >>
Given(text) == <<text>>

\* request_data.get(key) is truthy: present and not the empty text
Truthy(m) == m # Missing /\ m[1] # << >>

UnknownId == TablePrefix \o <<"9">>

Questions ==
    { Missing, Given(<< >>), Given(<<"T", "r", "e", "n", "d">>), Given(<<"S", "u", "m", " ", "t", "i", "m", "e">>),
      Given(<<"c", "o", "u", "n", "t">>), Given(<<"w", "h", "y">>) }

RequestIds == { Missing, Given(<< >>) } \cup { Given(t) : t \in TableIds \cup {UnknownId} }

Requests == { [table_id |-> t, question |-> qu] : t \in RequestIds, qu \in Questions }

NoSuchTable == <<"n", "o", "s", "u", "c", "h">>

\* the translator's possible outcomes for a request whose table_info is info
KeySets == {ResponseKeys, {}} \cup { ResponseKeys \ {k} : k \in ResponseKeys }

Replies(info) ==
    { [kind |-> k, keys |-> {}, sql_query |-> Select(NoSuchTable, 0),
       visualization_type |-> "table"] : k \in {"raise", "notjson"} }
    \cup
    { [kind |-> "json", keys |-> ks, sql_query |-> Select(t, 0),
       visualization_type |-> v] :
        ks \in KeySets,
        t \in {NoSuchTable} \cup { info[i].table_name : i \in 1..Len(info) },
        v \in {"pie", "table"} }

NoRequest == [table_id |-> Missing, question |-> Missing]
NoReply   == [kind |-> "none", keys |-> {}, sql_query |-> Select(NoSuchTable, 0),
              visualization_type |-> "table"]

-----------------------------------------------------------------------------
(* POST /query and GET /tables/{table_id}/info.  A handler resumes only     *)
(* when no upload is being processed (one event loop, synchronous upload). *)

\* line 313: except Exception -> HTTPException(500, str(e))
QueryExcept(e) == HTTPException(500, e.detail, e.cause)

\* line 374: except Exception -> HTTPException(404, "Table not found")
InfoExcept(e) == HTTPException(404, "Table not found", e.cause)

\* what pd.read_sql raises: the relation is absent, or the store is unavailable
NoSuchRelation      == HTTPException(0, "no such table", "missing")
StorageUnavailable  == HTTPException(0, "storage unavailable", "storage")
KeyError(key)       == HTTPException(0, key, "keyerror")
IndexError          == HTTPException(0, "list index out of range", "translation")

QueryEnds(resp) ==
    /\ qPc' = "done"
    /\ qResp' = <<resp>>

\* lines 268-287: validation, the metadata read, table_info, the translator call
ProcessQuery ==
    /\ qPc = "idle"
    /\ upPc = "idle"
    /\ \E req \in Requests, readOk \in BOOLEAN :
         /\ request_data' = req
         /\ qKind' = "query"
         /\ IF ~Truthy(req.table_id) \/ ~Truthy(req.question)
            THEN /\ QueryEnds(QueryExcept(HTTPException(400,
                        "table_id and question are required", "validation")))
                 /\ qTrace' = << >>
                 /\ table_info' = << >>
            ELSE LET mt == MetadataTable(req.table_id[1]) IN
                 /\ qTrace' = IF Exists(db, mt) /\ readOk
                                 /\ ~(db[mt].columns # MetaColumns /\ db[mt].rows # << >>)
                              THEN <<"metadata_read", "translator">>
                              ELSE <<"metadata_read">>
                 /\ IF ~Exists(db, mt)
                    THEN QueryEnds(QueryExcept(NoSuchRelation)) /\ table_info' = << >>
                    ELSE IF ~readOk
                    THEN QueryEnds(QueryExcept(StorageUnavailable)) /\ table_info' = << >>
                    ELSE IF db[mt].columns # MetaColumns /\ db[mt].rows # << >>
                    THEN QueryEnds(QueryExcept(KeyError("table_name"))) /\ table_info' = << >>
                    ELSE /\ table_info' =
                              IF db[mt].columns = MetaColumns
                              THEN BuildTableInfo(db[mt].rows, << >>)
                              ELSE << >>
                         /\ qPc' = "awaiting"
                         /\ qResp' = << >>
    /\ UNCHANGED <<ai_reply, executedSql, usedViz>>
    /\ UNCHANGED pureVars
    /\ UNCHANGED uploadVars

\* lines 195-209 and 289-313: the translator call ends, the response is built
TranslatorReply ==
    /\ qPc = "awaiting"
    /\ upPc = "idle"
    /\ \E reply \in Replies(table_info), sqlOk \in BOOLEAN :
         LET got  == AgentProcessQuery(reply, request_data.question[1], table_info)
             ai   == got.value
             soft == IF "explanation" \in ai.keys
                     THEN HTTPException(200, "SQL execution error", "soft")
                     ELSE QueryExcept(KeyError("explanation"))
         IN
         /\ ai_reply' = reply
         /\ UNCHANGED qTrace
         /\ IF got.tag = "raise"
            THEN /\ QueryEnds(QueryExcept(IndexError))
                 /\ UNCHANGED <<executedSql, usedViz>>
            ELSE IF "sql_query" \notin ai.keys
            THEN /\ QueryEnds(soft)
                 /\ UNCHANGED <<executedSql, usedViz>>
            ELSE IF ~(sqlOk /\ Exists(db, ai.sql_query.from))
            THEN /\ QueryEnds(soft)
                 /\ executedSql' = <<ai.sql_query>>
                 /\ UNCHANGED usedViz
            ELSE IF "visualization_type" \notin ai.keys
            THEN /\ QueryEnds(soft)
                 /\ executedSql' = <<ai.sql_query>>
                 /\ UNCHANGED usedViz
            ELSE /\ executedSql' = <<ai.sql_query>>
                 /\ usedViz' = <<ai.visualization_type>>
                 /\ IF {"explanation", "insights"} \subseteq ai.keys
                    THEN QueryEnds(HTTPException(200, "success", "none"))
                    ELSE QueryEnds(soft)
    /\ UNCHANGED <<qKind, request_data, table_info>>
    /\ UNCHANGED pureVars
    /\ UNCHANGED uploadVars

\* lines 361-374
GetTableInfo ==
    /\ qPc = "idle"
    /\ upPc = "idle"
    /\ \E id \in TableIds \cup {UnknownId}, readOk \in BOOLEAN :
         /\ request_data' = [table_id |-> Given(id), question |-> Missing]
         /\ qKind' = "info"
         /\ qTrace' = <<"metadata_read">>
         /\ IF ~Exists(db, MetadataTable(id))
            THEN QueryEnds(InfoExcept(NoSuchRelation))
            ELSE IF ~readOk
            THEN QueryEnds(InfoExcept(StorageUnavailable))
            ELSE QueryEnds(HTTPException(200, "tables", "none"))
    /\ UNCHANGED <<table_info, ai_reply, executedSql, usedViz>>
    /\ UNCHANGED pureVars
    /\ UNCHANGED uploadVars

\* the response is sent; the request's locals are gone
QueryReturn ==
    /\ qPc = "done"
    /\ qPc' = "idle"
    /\ qKind' = "none"
    /\ request_data' = NoRequest
    /\ table_info' = << >>
    /\ ai_reply' = NoReply
    /\ qResp' = << >>
    /\ qTrace' = << >>
    /\ executedSql' = << >>
    /\ usedViz' = << >>
    /\ UNCHANGED pureVars
    /\ UNCHANGED uploadVars

-----------------------------------------------------------------------------
(* Specifications                                                          *)

vars == <<col_name, clean_name, series, dtype, db, upPc, file,
          processed_sheets, table_id, sheetIdx, phase, upResp, dbBefore,
          ingested, uploads, qPc, qKind, request_data, table_info, ai_reply,
          qResp, qTrace, executedSql, usedViz>>

PureIdle ==
    /\ col_name = NaN
    /\ clean_name = << >>
    /\ series = << >>
    /\ dtype = << >>

UploadIdle ==
    /\ db = EmptyDb
    /\ upPc = "idle"
    /\ file = NoFile
    /\ processed_sheets = << >>
    /\ table_id = << >>
    /\ sheetIdx = 0
    /\ phase = "none"
    /\ upResp = << >>
    /\ dbBefore = EmptyDb
    /\ ingested = {}
    /\ uploads = 0

QueryIdle ==
    /\ qPc = "idle"
    /\ qKind = "none"
    /\ request_data = NoRequest
    /\ table_info = << >>
    /\ ai_reply = NoReply
    /\ qResp = << >>
    /\ qTrace = << >>
    /\ executedSql = << >>
    /\ usedViz = << >>

\* the service after start-up, serving upload requests
Init == PureIdle /\ UploadIdle /\ QueryIdle

Next ==
    \/ UploadFile
    \/ ReadSheet
    \/ GenerateTableId
    \/ WriteData
    \/ WriteMetadata
    \/ UploadReturn

Spec == Init /\ [][Next]_vars

\* the service serving upload, query and table-info requests
NextQuery ==
    \/ UploadFile
    \/ ReadSheet
    \/ GenerateTableId
    \/ WriteData
    \/ WriteMetadata
    \/ UploadReturn
    \/ ProcessQuery
    \/ TranslatorReply
    \/ GetTableInfo
    \/ QueryReturn

SpecQuery == Init /\ [][NextQuery]_vars

\* clean_column_name applied to every label of Labels
InitClean ==
    /\ col_name \in Labels
    /\ clean_name = << >>
    /\ series = << >>
    /\ dtype = << >>
    /\ UploadIdle
    /\ QueryIdle

NextClean == CleanColumnName \/ NextLabel

SpecClean == InitClean /\ [][NextClean]_vars

\* detect_data_type applied to every column of Columns
InitInfer ==
    /\ col_name = NaN
    /\ clean_name = << >>
    /\ series \in Columns
    /\ dtype = << >>
    /\ UploadIdle
    /\ QueryIdle

NextInfer == DetectDataType \/ NextSeries

SpecInfer == InitInfer /\ [][NextInfer]_vars

-----------------------------------------------------------------------------
(* Properties                                                              *)

Range(f) == { f[i] : i \in DOMAIN f }

PersistReturned == upPc = "done" /\ upResp = <<Summary>>
StoreFailed     == upPc = "done" /\ upResp # << >> /\ upResp[1].cause = "storage"
ReadFailed      == upPc = "done" /\ upResp # << >> /\ upResp[1].cause = "read"

SheetTable(i) == TableName(table_id, processed_sheets[i].sheet_name)
SheetMetadataRow(i) == MetadataRow(table_id, file.filename, processed_sheets[i])
CallMetadataRows ==
    [i \in 1..Len(processed_sheets) |-> SheetMetadataRow(i)]
RowsOf(d, name) == IF Exists(d, name) THEN d[name].rows ELSE << >>

\* C1: when persist has returned for an upload id and a sheet name that an
\* earlier persist call of the same upload id also stored, the data relation of
\* that sheet holds exactly this call's rows of the sheet, and the metadata
\* relation holds the rows it held before the call followed by the rows of
\* this call.
C1_ReplaceDataAppendMetadata ==
    PersistReturned =>
      \A i \in 1..Len(processed_sheets) :
        <<table_id, processed_sheets[i].sheet_name>> \in ingested =>
          /\ Exists(db, SheetTable(i))
          /\ db[SheetTable(i)].rows = processed_sheets[i].data
          /\ Exists(dbBefore, MetadataTable(table_id))
          /\ RowsOf(db, MetadataTable(table_id)) =
                RowsOf(dbBefore, MetadataTable(table_id)) \o CallMetadataRows

\* C2: when a relation write failed while sheet N (= sheetIdx) was handled,
\* the call ended in a storage error and not in a summary, every sheet before
\* N still has its data relation as written and its metadata row in the
\* metadata relation, and no sheet after N has a metadata row added.
C2_PartialCommitKept ==
    StoreFailed =>
      /\ upResp[1].status # 200
      /\ \A j \in 1..(sheetIdx - 1) :
           /\ Exists(db, SheetTable(j))
           /\ db[SheetTable(j)] = [columns |-> processed_sheets[j].columns,
                                   rows    |-> processed_sheets[j].data]
           /\ SheetMetadataRow(j) \in Range(RowsOf(db, MetadataTable(table_id)))
      /\ \A j \in (sheetIdx + 1)..Len(processed_sheets) :
           SheetMetadataRow(j) \in Range(RowsOf(db, MetadataTable(table_id)))
             => SheetMetadataRow(j) \in Range(RowsOf(dbBefore, MetadataTable(table_id)))

\* C7: after a successful persist, sheets with different names have different
\* table names, the store holds one data relation per sheet of the upload,
\* and each holds exactly the rows of its own sheet.
C7_OneRelationPerSheet ==
    PersistReturned =>
      /\ \A i, j \in 1..Len(processed_sheets) :
           i # j => SheetTable(i) # SheetTable(j)
      /\ Cardinality({ SheetTable(i) : i \in 1..Len(processed_sheets) })
            = Len(processed_sheets)
      /\ \A i \in 1..Len(processed_sheets) :
           /\ Exists(db, SheetTable(i))
           /\ db[SheetTable(i)].rows = processed_sheets[i].data

\* C8: every step leaves the metadata relation of every upload id unchanged or
\* adds exactly one row at its end (a relation that appears starts with one
\* row), and a step that completes a persist of K sheets leaves it K rows
\* longer than it was when the request arrived.
C8_MetadataAppendOnly ==
    [][ /\ \A id \in TableIds :
             LET mt == MetadataTable(id) IN
             /\ Exists(db, mt) =>
                  /\ Exists(db', mt)
                  /\ \/ db'[mt] = db[mt]
                     \/ /\ db'[mt].columns = db[mt].columns
                        /\ Len(db'[mt].rows) = Len(db[mt].rows) + 1
                        /\ SubSeq(db'[mt].rows, 1, Len(db[mt].rows)) = db[mt].rows
             /\ (~Exists(db, mt) /\ Exists(db', mt)) => Len(db'[mt].rows) = 1
        /\ (upPc = "storing" /\ upPc' = "done" /\ upResp' = <<Summary>>) =>
             Len(RowsOf(db', MetadataTable(table_id))) =
                Len(RowsOf(dbBefore, MetadataTable(table_id))) + Len(processed_sheets)
      ]_vars

\* C10: no relation is written before every sheet has been read and cleaned:
\* while sheets are being read the store is as it was when the request
\* arrived, the store loop runs only over a completely read workbook, and
\* after a read failure at any sheet the store is as it was when the request
\* arrived and no upload id has been drawn.
C10_NoWriteBeforeAllSheetsRead ==
    /\ upPc = "reading" => db = dbBefore
    /\ upPc = "storing" => Len(processed_sheets) = Len(file.sheets)
    /\ ReadFailed => db = dbBefore /\ table_id = << >>

\* C10 witness: reading failed at the second sheet of a workbook, with
\* relations of an earlier upload in the store.
C10_Witness ==
    /\ ReadFailed
    /\ Len(processed_sheets) = 1
    /\ Len(file.sheets) = 2
    /\ db # EmptyDb

QueryDone == qPc = "done" /\ qKind = "query"

\* C3: a query whose table_id or question is missing or empty ends with
\* status 400, and no metadata read, translator call or SQL execution is made.
C3_ValidationIs400 ==
    (QueryDone /\ (~Truthy(request_data.table_id) \/ ~Truthy(request_data.question)))
      => /\ qResp[1].status = 400
         /\ qTrace = << >>
         /\ executedSql = << >>

\* C4: a metadata read of an upload id whose metadata relation does not exist
\* ends with status 404, and a failed read of an existing metadata relation
\* ends with another status, for the table-info request and for the query.
C4_NotFoundIsDistinct ==
    qPc = "done" =>
      /\ qResp[1].cause = "missing" => qResp[1].status = 404
      /\ qResp[1].cause = "storage" => qResp[1].status # 404

KeywordViz(question) ==
    IF Contains(Lower(question), <<"t", "r", "e", "n", "d">>) \/ Contains(Lower(question), <<"t", "i", "m", "e">>)
    THEN "line"
    ELSE IF \/ Contains(Lower(question), <<"s", "u", "m">>)
            \/ Contains(Lower(question), <<"t", "o", "t", "a", "l">>)
            \/ Contains(Lower(question), <<"c", "o", "u", "n", "t">>)
    THEN "bar"
    ELSE "table"

Malformed(reply) ==
    \/ reply.kind \in {"raise", "notjson"}
    \/ reply.kind = "json" /\ reply.keys # ResponseKeys

\* C5: when the translator call failed or its reply was malformed, the query
\* does not end in an error: the statement executed is SELECT * FROM <first
\* table of the metadata> LIMIT 100, and the chart type handed to the renderer
\* is the one the keywords of the question select.
C5_TranslationFailureAbsorbed ==
    (QueryDone /\ Malformed(ai_reply)) =>
      /\ qResp[1].status = 200
      /\ table_info # << >>
      /\ executedSql = << Select(table_info[1].table_name, 100) >>
      /\ usedViz # << >> => usedViz = << KeywordViz(request_data.question[1]) >>

IsNameChar(c) ==
    c \in {"a", "b", "x", "y", "U", "n", "m", "e", "d", "C", "o", "l", "u",
           "0", "1", "3", "f", "_"}

\* C6: for every raw label, clean_column_name returns a name that is not
\* empty, has at most 50 characters and holds only characters of [A-Za-z0-9_].
C6_CleanNameWellFormed ==
    clean_name # << >> =>
      /\ clean_name[1] # << >>
      /\ Len(clean_name[1]) <= 50
      /\ \A i \in 1..Len(clean_name[1]) : IsNameChar(clean_name[1][i])

Kinds == {"INTEGER", "REAL", "DATETIME", "TEXT"}

\* C9: detect_data_type returns one of the four kinds, by the first match of:
\* no non-null value gives TEXT; all values numbers gives INTEGER when all
\* have zero fractional part and REAL otherwise; all values dates gives
\* DATETIME; else TEXT.
C9_FirstMatchOrder ==
    dtype # << >> =>
      LET nn   == SelectSeq(series, LAMBDA v : v # NULL)
          nums == \A i \in 1..Len(nn) : nn[i] \in {"int", "year", "frac"}
          ints == \A i \in 1..Len(nn) : nn[i] \in {"int", "year"}
          dats == \A i \in 1..Len(nn) : nn[i] \in {"year", "date", "timestamp"}
      IN  /\ dtype[1] \in Kinds
          /\ dtype[1] = IF nn = << >> THEN "TEXT"
                        ELSE IF nums THEN (IF ints THEN "INTEGER" ELSE "REAL")
                        ELSE IF dats THEN "DATETIME"
                        ELSE "TEXT"
          /\ (\E i \in 1..Len(nn) : nn[i] \notin {"int", "year", "frac"})
               => dtype[1] \in {"TEXT", "DATETIME"}
          /\ (nn # << >> /\ nums /\ dats) => dtype[1] \in {"INTEGER", "REAL"}

\* C9 witness: one text value among numbers has demoted the column to TEXT.
C9_Witness ==
    /\ series = <<"frac", "int", "text">>
    /\ dtype = <<"TEXT">>

====
